---- MODULE Spec2Model ----
(***************************************************************************)
(* The related-records carousel of the repository, in its two variants:    *)
(*   "wrap"  - lwc/relatedListCarousel/relatedListCarousel.js              *)
(*             (recommendations carousel, navigation cycles)               *)
(*   "clamp" - unnamed/part_002 (related-records carousel, navigation      *)
(*             stops at both ends, the stack starts on the last card)      *)
(* One behaviour follows one component instance of one variant.  Indices   *)
(* are 0-based as in the JavaScript; tableData[k + 1] is the card at       *)
(* JavaScript index k.                                                     *)
(***************************************************************************)
EXTENDS Integers, Sequences, FiniteSets, TLC

VARIABLES
    variant,        \* which of the two components this instance is
    tableData,      \* @track tableData: the sequence of cards
    error,          \* @track error: Undefined or a message string
    currentIndex,   \* @track currentIndex
    isCollapsed,    \* @track isCollapsed
    issued,         \* number of Apex requests sent so far
    inFlight,       \* ids of the requests whose promise is still pending
    lastOp,         \* history: the handler that ran last
    lastArg,        \* history: the result list of the last .then callback
    navLog,         \* history: component state before each of the last (at
                    \* most two) navigation calls since the last other event
    run,            \* history: the current run of identical navigation calls
    okConnects,     \* history: connects that passed the configuration check
    latest,         \* history: what the response to the most recently sent
                    \* request left behind, while only callbacks have run
                    \* since it was handled
    \* the map component (unnamed/part_000)
    locations,      \* @track locations
    selectedView,   \* @track selectedView
    map,            \* this.map: 0 for null/undefined, else the id of the L.map
    markers,        \* this.markers: the location each marker was made for
    shown,          \* the indices of the markers that are layers of this.map
    leafletLoaded,  \* this.leafletLoaded
    isLoading,      \* this.isLoading
    mapError,       \* this.error
    heatLayer,      \* this.heatLayer: 0 for null/undefined, else the id of the
                    \* map the layer was added to
    isHeatMap,      \* this.isHeatMap
    connected,      \* the component is in the DOM
    loads,          \* pending loadLeafletAndInitializeMap promises
    resizeTimers,   \* pending 100 ms timers of renderedCallback
    initTimers,     \* pending 100 ms timers of initializeMap
    mapsMade,       \* number of L.map objects created so far
    faults,         \* history: uses of a null map or of a removed map's layer
    \* the SQL results table (sqlResultsTable.js)
    value,          \* @api value: whether it is set, its totalRows and the
                    \* length of its rows
    showTable,      \* @track showTable
    processedRows,  \* the length of @track processedRows
    displayedRowCount,  \* @track displayedRowCount
    tableConnected, \* connectedCallback has run
    goodLoads       \* history: loadMoreRows calls made while canLoadMore

carouselVars ==
    <<variant, tableData, error, currentIndex, isCollapsed, issued, inFlight,
      lastOp, lastArg, navLog, run, okConnects, latest>>

mapVars ==
    <<locations, selectedView, map, markers, shown, leafletLoaded, isLoading,
      mapError, heatLayer, isHeatMap, connected, loads, resizeTimers,
      initTimers, mapsMade, faults>>

tableVars ==
    <<value, showTable, processedRows, displayedRowCount, tableConnected,
      goodLoads>>

vars == <<carouselVars, mapVars, tableVars>>

(* ------------------------------ bounds -------------------------------- *)

\* longest result list a fetch delivers
MaxRecs == 4

\* number of Apex requests one instance sends
MaxConnects == 2

\* number of L.map objects one map component creates
MaxMaps == 2

\* pending timers of one kind, and pending resource loads
MaxPending == 1

\* largest totalRows, and largest number of rows, of a query result
MaxTotalRows == 32

INITIAL_ROWS == 8

LOAD_MORE_INCREMENT == 6

MAX_DISPLAY_ROWS == 30

\* the value of the SQL results table while no parent has set it
NoValue == [set |-> FALSE, totalRows |-> 0, rows |-> 0]

(* --------------------------- small helpers ---------------------------- *)

Min(a, b) == IF a < b THEN a ELSE b

Max(a, b) == IF a > b THEN a ELSE b

\* JavaScript's undefined, for the error field
Undefined == "undefined"

(* ------------------------------ inputs -------------------------------- *)

\* The k-th raw record an Apex endpoint can deliver.  Ids are unique; the
\* odd records have every value set, the even ones none (no name, no image
\* document, score 0).
Rec(k) ==
    [Id |-> "a0" \o ToString(k),
     name |-> IF k % 2 = 1 THEN "Acme " \o ToString(k) ELSE "",
     img |-> IF k % 2 = 1 THEN "069" \o ToString(k) ELSE "",
     score |-> k % 2]

Records == { Rec(k) : k \in 1..MaxRecs }

\* the result lists: the first n records, in either order
Ascending(n) == [k \in 1..n |-> Rec(k)]

Descending(n) == [k \in 1..n |-> Rec(n + 1 - k)]

Results == { Ascending(n) : n \in 0..MaxRecs } \cup { Descending(n) : n \in 0..MaxRecs }

\* fieldsList as the fieldsArray getter parses it
FieldsLists == { <<>>, <<"Name", "current_product_image__c">> }

\* which of the @api identifiers are set when the component is connected
Configs ==
    [recordId : BOOLEAN, objectApiName : BOOLEAN,
     lookupFieldApiName : BOOLEAN, fieldsList : BOOLEAN]

\* rejections: an Apex error with body.message, a JavaScript Error with
\* message only, and an error object with neither
Errs ==
    { [bodyMessage |-> "Apex failure", message |-> ""],
      [bodyMessage |-> "", message |-> "Network error"],
      [bodyMessage |-> "", message |-> ""] }

(* ------------------------- getters and helpers ------------------------ *)

firstField(fieldsArray) ==
    IF Len(fieldsArray) > 0 THEN fieldsArray[1] ELSE "null"

additionalFields(fieldsArray) ==
    IF Len(fieldsArray) > 1 THEN Tail(fieldsArray) ELSE <<>>

humanizeLabel(apiName) ==
    CASE apiName = "current_product_image__c" -> "Current Product Image"
      [] apiName = "Name" -> "Name"
      [] OTHER -> apiName

\* Number.prototype.toFixed(2) on the scores of Records
toFixed2(score) == IF score = 1 THEN "1.00" ELSE "0.00"

\* rec[fld] / rec.fields[fld]
RawValue(rec, fld) ==
    CASE fld = "current_product_image__c" -> rec.img
      [] fld = "Name" -> rec.name
      [] OTHER -> ""

\* Array.prototype.includes
Includes(arr, x) == \E j \in 1..Len(arr) : arr[j] = x

hasRecords == Len(tableData) > 0

\* wrap variant: both arrows are shown whenever there is more than one card
showLeftArrowWrap == hasRecords /\ Len(tableData) > 1

showRightArrowWrap == hasRecords /\ Len(tableData) > 1

\* clamp variant
showLeftArrowClamp == hasRecords /\ currentIndex > 0

showRightArrowClamp == hasRecords /\ currentIndex < Len(tableData) - 1

(* ------------------- display classes (updateCardClasses) -------------- *)

\* CardClassWrap without the wrapped conditions of its second and third test
CardClassWrapNoWrap(index, cur, len) ==
    LET position == index - cur IN
    IF position = 0 THEN "record-card card-active"
    ELSE IF position = 1 THEN "record-card card-middle"
    ELSE IF position = 2 THEN "record-card card-bottom"
    ELSE "record-card card-hidden"

\* wrap variant: the class of the card at `index` (0-based)
CardClassWrap(index, cur, len) ==
    LET position == index - cur IN
    IF position = 0 THEN "record-card card-active"
    ELSE IF position = 1 \/ (cur = len - 1 /\ index = 0)
         THEN "record-card card-middle"
    ELSE IF \/ position = 2
            \/ (cur = len - 1 /\ index = 1)
            \/ (cur = len - 2 /\ index = 0)
         THEN "record-card card-bottom"
    ELSE "record-card card-hidden"

\* CardClassClamp stacking forward, as the wrap variant does
CardClassClampForward(index, cur) ==
    LET position == index - cur IN
    IF position = 0 THEN "record-card card-active"
    ELSE IF position = 1 THEN "record-card card-middle"
    ELSE IF position = 2 THEN "record-card card-bottom"
    ELSE "record-card card-hidden"

\* clamp variant: the class of the card at `index` (0-based)
CardClassClamp(index, cur) ==
    LET position == index - cur IN
    IF position = 0 THEN "record-card card-active"
    ELSE IF position = -1 THEN "record-card card-middle"
    ELSE IF position = -2 THEN "record-card card-bottom"
    ELSE "record-card card-hidden"

\* { ...rec, cardClass, position, isActive }
updateCardClassesWrap(data, cur) ==
    [k \in 1..Len(data) |->
        [Id |-> data[k].Id, title |-> data[k].title, url |-> data[k].url,
         fields |-> data[k].fields, score |-> data[k].score,
         cardClass |-> CardClassWrap(k - 1, cur, Len(data)),
         position |-> (k - 1) - cur,
         isActive |-> ((k - 1) - cur = 0)]]

\* updateCardClassesClamp keeping only the cards of the visible stack
updateCardClassesClampVisible(data, cur) ==
    SelectSeq([k \in 1..Len(data) |->
                  [Id |-> data[k].Id, title |-> data[k].title, url |-> data[k].url,
                   fields |-> data[k].fields,
                   cardClass |-> CardClassClamp(k - 1, cur),
                   position |-> (k - 1) - cur]],
              LAMBDA card : card.cardClass # "record-card card-hidden")

\* { ...rec, cardClass, position }
updateCardClassesClamp(data, cur) ==
    [k \in 1..Len(data) |->
        [Id |-> data[k].Id, title |-> data[k].title, url |-> data[k].url,
         fields |-> data[k].fields,
         cardClass |-> CardClassClamp(k - 1, cur),
         position |-> (k - 1) - cur]]

(* ------------------- cards built from a fetch response ---------------- *)

ImagePrefix == "/sfc/servlet.shepherd/document/download/"

\* one entry of a card's fields; both variants treat the image field alike
FieldEntry(rec, fld, isImageField) ==
    LET rawValue == RawValue(rec, fld) IN
    [label |-> humanizeLabel(fld),
     value |-> IF isImageField /\ rawValue # "" THEN ImagePrefix \o rawValue
               ELSE rawValue,
     apiName |-> fld,
     isImage |-> (isImageField /\ rawValue # "")]

\* fld === 'current_product_image__c' || fld.toLowerCase().includes('image')
IsImageFieldWrap(fld) == fld = "current_product_image__c"

\* fld === 'current_product_image__c'
IsImageFieldClamp(fld) == fld = "current_product_image__c"

ScoreEntry(rec) ==
    [label |-> "Recommendation Score", value |-> toFixed2(rec.score),
     apiName |-> "score", isImage |-> FALSE]

\* results.map(...) of fetchRecommendations; the classes are filled in by
\* updateCardClasses before the callback returns
CardsWrap(results, fieldsArray) ==
    LET addFlds == additionalFields(fieldsArray) IN
    [k \in 1..Len(results) |->
        LET rec == results[k]
            fieldsData ==
                [j \in 1..Len(addFlds) |->
                    FieldEntry(rec, addFlds[j], IsImageFieldWrap(addFlds[j]))]
        IN  [Id |-> rec.Id,
             title |-> IF rec.name # "" THEN rec.name
                       ELSE "Record " \o ToString(k),
             url |-> "/" \o rec.Id,
             fields |-> IF rec.score # 0 /\ ~Includes(addFlds, "score")
                        THEN Append(fieldsData, ScoreEntry(rec))
                        ELSE fieldsData,
             score |-> rec.score,
             cardClass |-> Undefined, position |-> 0, isActive |-> FALSE]]

\* results.map(...) of fetchAllRelatedRecords
CardsClamp(results, fieldsArray) ==
    LET firstFld == firstField(fieldsArray)
        addFlds == additionalFields(fieldsArray)
    IN
    [k \in 1..Len(results) |->
        LET rec == results[k] IN
        [Id |-> rec.Id,
         title |-> IF RawValue(rec, firstFld) # "" THEN RawValue(rec, firstFld)
                   ELSE "Record " \o ToString(k),
         url |-> "/" \o rec.Id,
         fields |-> [j \in 1..Len(addFlds) |->
                        FieldEntry(rec, addFlds[j], IsImageFieldClamp(addFlds[j]))],
         cardClass |-> Undefined, position |-> 0]]

(* ---------------------------- error messages -------------------------- *)

ConfigErrorWrap ==
    "Configuration error: recordId and targetObjectApiName are required."

ConfigErrorClamp ==
    "Configuration error: check childObjectApiName, lookupFieldApiName, and fieldsList."

\* err.body?.message || err.message || 'Error fetching recommendations'
ErrorMessageWrap(err) ==
    IF err.bodyMessage # "" THEN err.bodyMessage
    ELSE IF err.message # "" THEN err.message
    ELSE "Error fetching recommendations"

\* JSON.stringify(err): an Error object has no enumerable own property
Stringify(err) ==
    IF err.message # "" THEN "{}" ELSE "{\"body\":{}}"

\* err.body && err.body.message ? err.body.message : JSON.stringify(err)
ErrorMessageClamp(err) ==
    IF err.bodyMessage # "" THEN err.bodyMessage ELSE Stringify(err)

(* --------------------------- index arithmetic ------------------------- *)

\* NextIndexWrap comparing with the length instead of the last index
NextIndexWrapLate(cur, len) == IF cur < len THEN cur + 1 ELSE 0

\* NextIndexWrap stopping at the last index
NextIndexWrapStops(cur, len) == IF cur < len - 1 THEN cur + 1 ELSE cur

\* NextIndexWrap cycling to the second card
NextIndexWrapSkips(cur, len) == IF cur < len - 1 THEN cur + 1 ELSE 1

\* handleNext of the wrap variant, past its length guard
NextIndexWrap(cur, len) == IF cur < len - 1 THEN cur + 1 ELSE 0

\* PrevIndexWrap stopping at the first index
PrevIndexWrapStops(cur, len) == IF cur > 0 THEN cur - 1 ELSE 0

\* handlePrevious of the wrap variant, past its length guard
PrevIndexWrap(cur, len) == IF cur > 0 THEN cur - 1 ELSE len - 1

\* StartIndexClamp starting on the first card, as the wrap variant does
StartIndexClampFirst(len) == 0

\* Math.max(0, this.tableData.length - 1)
StartIndexClamp(len) == Max(0, len - 1)

\* this.currentIndex = 0 of the wrap variant's .then callback
StartIndexWrap(len) == 0

(* ------------------------------ history ------------------------------- *)

\* the component's fields, as a navigation call finds them
Snapshot ==
    [tableData |-> tableData, currentIndex |-> currentIndex, error |-> error,
     isCollapsed |-> isCollapsed]

\* the last two navigation calls since the last other event
LogNav(op) ==
    LET entry == [op |-> op, pre |-> Snapshot] IN
    IF Len(navLog) < 2 THEN Append(navLog, entry) ELSE <<navLog[2], entry>>

\* a run of identical navigation calls; it starts over on a change of
\* direction and once it is as long as the sequence
RunNav(op) ==
    IF lastOp = op /\ run.n < Len(tableData)
    THEN [n |-> run.n + 1, start |-> run.start]
    ELSE [n |-> 1, start |-> currentIndex]

NoRun == [n |-> 0, start |-> 0]

Navigated(op) ==
    /\ UNCHANGED <<mapVars, tableVars>>
    /\ lastOp' = op
    /\ lastArg' = <<>>
    /\ navLog' = LogNav(op)
    /\ run' = RunNav(op)

Other(op, arg) ==
    /\ UNCHANGED <<mapVars, tableVars>>
    /\ lastOp' = op
    /\ lastArg' = arg
    /\ navLog' = <<>>
    /\ run' = NoRun

\* no response to the most recently sent request has been handled
NoOutcome ==
    [req |-> 0, tableData |-> <<>>, currentIndex |-> 0, error |-> Undefined]

\* a callback of request `req` has run: if `req` is the most recently sent
\* request, what it left behind is recorded
Responded(req) ==
    latest' = IF req = issued
              THEN [req |-> req, tableData |-> tableData',
                    currentIndex |-> currentIndex', error |-> error']
              ELSE latest

(* ------------------------------- actions ------------------------------ *)

Init ==
    /\ variant \in {"wrap", "clamp"}
    /\ tableData = <<>>
    /\ error = Undefined
    /\ currentIndex = 0
    /\ isCollapsed = FALSE
    /\ issued = 0
    /\ inFlight = {}
    /\ lastOp = "init"
    /\ lastArg = <<>>
    /\ navLog = <<>>
    /\ run = NoRun
    /\ okConnects = 0
    /\ latest = NoOutcome
    /\ locations = <<>>
    /\ selectedView = "all"
    /\ map = 0
    /\ markers = <<>>
    /\ shown = {}
    /\ leafletLoaded = FALSE
    /\ isLoading = TRUE
    /\ mapError = Undefined
    /\ heatLayer = 0
    /\ isHeatMap = FALSE
    /\ connected = TRUE
    /\ loads = 0
    /\ resizeTimers = 0
    /\ initTimers = 0
    /\ mapsMade = 0
    /\ faults = {}
    /\ value = NoValue
    /\ showTable = TRUE
    /\ processedRows = 0
    /\ displayedRowCount = INITIAL_ROWS
    /\ tableConnected = FALSE
    /\ goodLoads = 0

\* getRecommendations(...) / getRelatedRecords(...): the request leaves
SendRequest ==
    /\ issued < MaxConnects
    /\ issued' = issued + 1
    /\ inFlight' = inFlight \cup {issued + 1}

\* connectedCallbackWrap fetching when either identifier is set
connectedCallbackWrapEither(cfg) ==
    /\ variant = "wrap"
    /\ IF cfg.recordId \/ cfg.objectApiName
       THEN /\ SendRequest
            /\ okConnects' = okConnects + 1
            /\ latest' = NoOutcome
            /\ UNCHANGED error
       ELSE /\ error' = ConfigErrorWrap
            /\ latest' = NoOutcome
            /\ UNCHANGED <<issued, inFlight, okConnects>>
    /\ UNCHANGED <<variant, tableData, currentIndex, isCollapsed>>
    /\ Other("connect", <<>>)

\* wrap variant: connectedCallback and the synchronous part of
\* fetchRecommendations
connectedCallbackWrap(cfg) ==
    /\ variant = "wrap"
    /\ IF cfg.recordId /\ cfg.objectApiName
       THEN /\ SendRequest
            /\ okConnects' = okConnects + 1
            /\ latest' = NoOutcome
            /\ UNCHANGED error
       ELSE /\ error' = ConfigErrorWrap
            /\ latest' = NoOutcome
            /\ UNCHANGED <<issued, inFlight, okConnects>>
    /\ UNCHANGED <<variant, tableData, currentIndex, isCollapsed>>
    /\ Other("connect", <<>>)

\* wrap variant: the .then callback of fetchRecommendations
fetchRecommendationsThen(req, results, fieldsArray) ==
    /\ variant = "wrap"
    /\ req \in inFlight
    /\ inFlight' = inFlight \ {req}
    /\ error' = Undefined
    /\ currentIndex' = StartIndexWrap(Len(results))
    /\ tableData' = updateCardClassesWrap(CardsWrap(results, fieldsArray), currentIndex')
    /\ Responded(req)
    /\ UNCHANGED <<variant, isCollapsed, issued, okConnects>>
    /\ Other("then", results)

\* wrap variant: the .catch callback of fetchRecommendations
fetchRecommendationsCatch(req, err) ==
    /\ variant = "wrap"
    /\ req \in inFlight
    /\ inFlight' = inFlight \ {req}
    /\ error' = ErrorMessageWrap(err)
    /\ tableData' = <<>>
    /\ currentIndex' = 0
    /\ Responded(req)
    /\ UNCHANGED <<variant, isCollapsed, issued, okConnects>>
    /\ Other("catch", <<>>)

\* handlePreviousWrap without its call of updateCardClasses
handlePreviousWrapStale ==
    /\ variant = "wrap"
    /\ IF Len(tableData) <= 1
       THEN UNCHANGED <<tableData, currentIndex>>
       ELSE /\ currentIndex' = PrevIndexWrap(currentIndex, Len(tableData))
            /\ UNCHANGED tableData
    /\ latest' = NoOutcome
    /\ UNCHANGED <<variant, error, isCollapsed, issued, inFlight, okConnects>>
    /\ Navigated("prev")

handlePreviousWrap ==
    /\ variant = "wrap"
    /\ IF Len(tableData) <= 1
       THEN UNCHANGED <<tableData, currentIndex>>
       ELSE /\ currentIndex' = PrevIndexWrap(currentIndex, Len(tableData))
            /\ tableData' = updateCardClassesWrap(tableData, currentIndex')
    /\ latest' = NoOutcome
    /\ UNCHANGED <<variant, error, isCollapsed, issued, inFlight, okConnects>>
    /\ Navigated("prev")

handleNextWrap ==
    /\ variant = "wrap"
    /\ IF Len(tableData) <= 1
       THEN UNCHANGED <<tableData, currentIndex>>
       ELSE /\ currentIndex' = NextIndexWrap(currentIndex, Len(tableData))
            /\ tableData' = updateCardClassesWrap(tableData, currentIndex')
    /\ latest' = NoOutcome
    /\ UNCHANGED <<variant, error, isCollapsed, issued, inFlight, okConnects>>
    /\ Navigated("next")

\* clamp variant: connectedCallback and the synchronous part of
\* fetchAllRelatedRecords
connectedCallbackClamp(cfg) ==
    /\ variant = "clamp"
    /\ IF ~cfg.recordId \/ ~cfg.objectApiName \/ ~cfg.lookupFieldApiName \/ ~cfg.fieldsList
       THEN /\ error' = ConfigErrorClamp
            /\ tableData' = <<>>
            /\ latest' = NoOutcome
            /\ UNCHANGED <<issued, inFlight, okConnects>>
       ELSE /\ SendRequest
            /\ okConnects' = okConnects + 1
            /\ latest' = NoOutcome
            /\ UNCHANGED <<error, tableData>>
    /\ UNCHANGED <<variant, currentIndex, isCollapsed>>
    /\ Other("connect", <<>>)

\* clamp variant: the .then callback of fetchAllRelatedRecords
fetchAllRelatedRecordsThen(req, results, fieldsArray) ==
    /\ variant = "clamp"
    /\ req \in inFlight
    /\ inFlight' = inFlight \ {req}
    /\ error' = Undefined
    /\ currentIndex' = StartIndexClamp(Len(results))
    /\ tableData' = updateCardClassesClamp(CardsClamp(results, fieldsArray), currentIndex')
    /\ Responded(req)
    /\ UNCHANGED <<variant, isCollapsed, issued, okConnects>>
    /\ Other("then", results)

\* fetchAllRelatedRecordsCatch sending the request again
fetchAllRelatedRecordsCatchRetries(req, err) ==
    /\ variant = "clamp"
    /\ req \in inFlight
    /\ issued < MaxConnects
    /\ issued' = issued + 1
    /\ inFlight' = (inFlight \ {req}) \cup {issued + 1}
    /\ error' = ErrorMessageClamp(err)
    /\ tableData' = <<>>
    /\ currentIndex' = 0
    /\ latest' = NoOutcome
    /\ UNCHANGED <<variant, isCollapsed, okConnects>>
    /\ Other("catch", <<>>)

\* clamp variant: the .catch callback of fetchAllRelatedRecords
fetchAllRelatedRecordsCatch(req, err) ==
    /\ variant = "clamp"
    /\ req \in inFlight
    /\ inFlight' = inFlight \ {req}
    /\ error' = ErrorMessageClamp(err)
    /\ tableData' = <<>>
    /\ currentIndex' = 0
    /\ Responded(req)
    /\ UNCHANGED <<variant, isCollapsed, issued, okConnects>>
    /\ Other("catch", <<>>)

handlePreviousClamp ==
    /\ variant = "clamp"
    /\ IF currentIndex > 0
       THEN /\ currentIndex' = currentIndex - 1
            /\ tableData' = updateCardClassesClamp(tableData, currentIndex')
       ELSE UNCHANGED <<tableData, currentIndex>>
    /\ latest' = NoOutcome
    /\ UNCHANGED <<variant, error, isCollapsed, issued, inFlight, okConnects>>
    /\ Navigated("prev")

\* handleNextClamp cycling to the first card, as the wrap variant does
handleNextClampCycles ==
    /\ variant = "clamp"
    /\ IF currentIndex < Len(tableData) - 1
       THEN /\ currentIndex' = currentIndex + 1
            /\ tableData' = updateCardClassesClamp(tableData, currentIndex')
       ELSE /\ currentIndex' = 0
            /\ tableData' = updateCardClassesClamp(tableData, currentIndex')
    /\ latest' = NoOutcome
    /\ UNCHANGED <<variant, error, isCollapsed, issued, inFlight, okConnects>>
    /\ Navigated("next")

handleNextClamp ==
    /\ variant = "clamp"
    /\ IF currentIndex < Len(tableData) - 1
       THEN /\ currentIndex' = currentIndex + 1
            /\ tableData' = updateCardClassesClamp(tableData, currentIndex')
       ELSE UNCHANGED <<tableData, currentIndex>>
    /\ latest' = NoOutcome
    /\ UNCHANGED <<variant, error, isCollapsed, issued, inFlight, okConnects>>
    /\ Navigated("next")

\* toggleCollapse resetting the carousel to its first card
toggleCollapseResets ==
    /\ isCollapsed' = ~isCollapsed
    /\ currentIndex' = 0
    /\ tableData' = IF variant = "wrap"
                    THEN updateCardClassesWrap(tableData, 0)
                    ELSE updateCardClassesClamp(tableData, 0)
    /\ latest' = NoOutcome
    /\ UNCHANGED <<variant, error, issued, inFlight, okConnects>>
    /\ Other("toggle", <<>>)

\* toggleCollapse, the same in both variants
toggleCollapse ==
    /\ isCollapsed' = ~isCollapsed
    /\ latest' = NoOutcome
    /\ UNCHANGED <<variant, tableData, error, currentIndex, issued, inFlight,
                   okConnects>>
    /\ Other("toggle", <<>>)

Next ==
    \/ \E cfg \in Configs : connectedCallbackWrap(cfg)
    \/ \E req \in 1..MaxConnects, results \in Results, fl \in FieldsLists :
          fetchRecommendationsThen(req, results, fl)
    \/ \E req \in 1..MaxConnects, err \in Errs : fetchRecommendationsCatch(req, err)
    \/ handlePreviousWrap
    \/ handleNextWrap
    \/ \E cfg \in Configs : connectedCallbackClamp(cfg)
    \/ \E req \in 1..MaxConnects, results \in Results, fl \in FieldsLists :
          fetchAllRelatedRecordsThen(req, results, fl)
    \/ \E req \in 1..MaxConnects, err \in Errs : fetchAllRelatedRecordsCatch(req, err)
    \/ handlePreviousClamp
    \/ handleNextClamp
    \/ toggleCollapse

Spec == Init /\ [][Next]_vars

(* ======================= the map component =========================== *)
(* unnamed/part_000.  Leaflet is modelled by what the component can tell  *)
(* of it: which map object exists, which markers are layers of it, and    *)
(* which map the heat layer was added to.                                 *)

LocCompany == [Id |-> "c1", Type |-> "Company"]

LocLab == [Id |-> "l1", Type |-> "Lab"]

\* what the wire adapter delivers as data
LocationData == { <<>>, <<LocCompany>>, <<LocCompany, LocLab>> }

ViewOptions == {"all", "companies", "labs", "heatmap"}

hasLocations(locs) == Len(locs) > 0

filteredLocations(locs, view) ==
    CASE view = "companies" -> SelectSeq(locs, LAMBDA loc : loc.Type = "Company")
      [] view = "labs" -> SelectSeq(locs, LAMBDA loc : loc.Type = "Lab")
      [] OTHER -> locs

\* error.body?.message || 'Unknown error occurred'
ErrorMessageMap(err) ==
    IF err.bodyMessage # "" THEN err.bodyMessage ELSE "Unknown error occurred"

\* the fields the Leaflet calls read and write, as one record
Leaflet ==
    [map |-> map, markers |-> markers, shown |-> shown, heatLayer |-> heatLayer,
     mapsMade |-> mapsMade, initTimers |-> initTimers, faults |-> faults]

Commit(st) ==
    /\ map' = st.map
    /\ markers' = st.markers
    /\ shown' = st.shown
    /\ heatLayer' = st.heatLayer
    /\ mapsMade' = st.mapsMade
    /\ initTimers' = st.initTimers
    /\ faults' = st.faults

\* this.map.removeLayer(this.heatLayer), on a map that exists
RemoveHeatLayer(st) ==
    IF st.heatLayer # st.map
    THEN [st EXCEPT !.faults = @ \cup {"layer of a removed map"}]
    ELSE st

teardownMap(st) ==
    [st EXCEPT !.map = 0, !.markers = <<>>, !.shown = {}]

updateMapMarkers(st, locs, view) ==
    IF st.map = 0 THEN st
    ELSE [st EXCEPT !.shown =
            {k \in 1..Len(st.markers) :
                \E j \in 1..Len(filteredLocations(locs, view)) :
                    /\ filteredLocations(locs, view)[j].Id = st.markers[k].Id
                    /\ filteredLocations(locs, view)[j].Type = st.markers[k].Type}]

\* window.L.heatLayer exists once the resources are loaded, and a map
\* exists only after that
showHeatMap(st) ==
    IF st.map = 0 THEN st
    ELSE LET cleared == [st EXCEPT !.shown = {}]
             removed == IF cleared.heatLayer # 0 THEN RemoveHeatLayer(cleared)
                        ELSE cleared
         IN  [removed EXCEPT !.heatLayer = removed.map]

\* `container`: the template holds the .map-container element
initializeMap(st, locs, view, container) ==
    IF ~container \/ ~hasLocations(locs) THEN st
    ELSE LET torn == teardownMap(st)
             made == [torn EXCEPT !.map = torn.mapsMade + 1,
                                  !.mapsMade = torn.mapsMade + 1,
                                  !.markers = locs]
             marked == updateMapMarkers(made, locs, view)
         IN  [marked EXCEPT !.initTimers = @ + 1]

\* the bounds of the model leave room for what st went through
WithinMapBounds(st) == st.mapsMade <= MaxMaps /\ st.initTimers <= MaxPending

\* wiredLocations, data branch
wiredLocationsData(data, container) ==
    /\ connected
    /\ locations' = data
    /\ mapError' = Undefined
    /\ isLoading' = FALSE
    /\ IF hasLocations(data)
       THEN IF ~leafletLoaded
            THEN /\ loads < MaxPending
                 /\ loads' = loads + 1
                 /\ Commit(Leaflet)
            ELSE /\ WithinMapBounds(initializeMap(Leaflet, data, selectedView, container))
                 /\ Commit(initializeMap(Leaflet, data, selectedView, container))
                 /\ UNCHANGED loads
       ELSE /\ Commit(Leaflet)
            /\ UNCHANGED loads
    /\ UNCHANGED <<selectedView, leafletLoaded, isHeatMap, connected, resizeTimers>>
    /\ UNCHANGED <<carouselVars, tableVars>>

\* wiredLocations, error branch
wiredLocationsError(err) ==
    /\ connected
    /\ mapError' = ErrorMessageMap(err)
    /\ locations' = <<>>
    /\ isLoading' = FALSE
    /\ Commit(teardownMap(Leaflet))
    /\ UNCHANGED <<selectedView, leafletLoaded, isHeatMap, connected, loads,
                   resizeTimers>>
    /\ UNCHANGED <<carouselVars, tableVars>>

\* loadLeafletAndInitializeMap after its await, resources loaded
loadLeafletResolved(container) ==
    /\ loads > 0
    /\ loads' = loads - 1
    /\ leafletLoaded' = TRUE
    /\ WithinMapBounds(initializeMap(Leaflet, locations, selectedView, container))
    /\ Commit(initializeMap(Leaflet, locations, selectedView, container))
    /\ UNCHANGED <<locations, selectedView, isLoading, mapError, isHeatMap,
                   connected, resizeTimers>>
    /\ UNCHANGED <<carouselVars, tableVars>>

\* loadLeafletAndInitializeMap, catch branch
loadLeafletRejected ==
    /\ loads > 0
    /\ loads' = loads - 1
    /\ mapError' = "Failed to load map resources"
    /\ Commit(Leaflet)
    /\ UNCHANGED <<locations, selectedView, leafletLoaded, isLoading, isHeatMap,
                   connected, resizeTimers>>
    /\ UNCHANGED <<carouselVars, tableVars>>

renderedCallback ==
    /\ connected
    /\ IF map # 0
       THEN /\ resizeTimers < MaxPending
            /\ resizeTimers' = resizeTimers + 1
       ELSE UNCHANGED resizeTimers
    /\ Commit(Leaflet)
    /\ UNCHANGED <<locations, selectedView, leafletLoaded, isLoading, mapError,
                   isHeatMap, connected, loads>>
    /\ UNCHANGED <<carouselVars, tableVars>>

\* the timer of renderedCallback: this.map.invalidateSize(), unguarded
resizeTimerFires ==
    /\ resizeTimers > 0
    /\ resizeTimers' = resizeTimers - 1
    /\ Commit(IF map = 0
              THEN [Leaflet EXCEPT !.faults = @ \cup {"method of a null map"}]
              ELSE Leaflet)
    /\ UNCHANGED <<locations, selectedView, leafletLoaded, isLoading, mapError,
                   isHeatMap, connected, loads>>
    /\ UNCHANGED <<carouselVars, tableVars>>

\* the timer of initializeMap: if (this.map) this.map.invalidateSize()
initTimerFires ==
    /\ initTimers > 0
    /\ Commit([Leaflet EXCEPT !.initTimers = @ - 1])
    /\ UNCHANGED <<locations, selectedView, leafletLoaded, isLoading, mapError,
                   isHeatMap, connected, loads, resizeTimers>>
    /\ UNCHANGED <<carouselVars, tableVars>>

handleViewChange(view) ==
    /\ connected
    /\ selectedView' = view
    /\ IF view = "heatmap"
       THEN /\ Commit(showHeatMap(Leaflet))
            /\ UNCHANGED isHeatMap
       ELSE /\ isHeatMap' = FALSE
            /\ Commit(updateMapMarkers(Leaflet, locations, view))
    /\ UNCHANGED <<locations, leafletLoaded, isLoading, mapError, connected,
                   loads, resizeTimers>>
    /\ UNCHANGED <<carouselVars, tableVars>>

toggleHeatmap ==
    /\ connected
    /\ isHeatMap' = ~isHeatMap
    /\ IF ~isHeatMap
       THEN Commit(showHeatMap(Leaflet))
       ELSE IF heatLayer # 0
            THEN IF map = 0
                 \* this.map.removeLayer throws: the handler ends here
                 THEN Commit([Leaflet EXCEPT !.faults = @ \cup {"method of a null map"}])
                 ELSE Commit(updateMapMarkers(
                                [RemoveHeatLayer(Leaflet) EXCEPT !.heatLayer = 0],
                                locations, selectedView))
            ELSE Commit(updateMapMarkers(Leaflet, locations, selectedView))
    /\ UNCHANGED <<locations, selectedView, leafletLoaded, isLoading, mapError,
                   connected, loads, resizeTimers>>
    /\ UNCHANGED <<carouselVars, tableVars>>

disconnectedCallback ==
    /\ connected
    /\ connected' = FALSE
    /\ Commit(teardownMap(Leaflet))
    /\ UNCHANGED <<locations, selectedView, leafletLoaded, isLoading, mapError,
                   isHeatMap, loads, resizeTimers>>
    /\ UNCHANGED <<carouselVars, tableVars>>

MapNext ==
    \/ \E data \in LocationData, container \in BOOLEAN :
          wiredLocationsData(data, container)
    \/ \E err \in Errs : wiredLocationsError(err)
    \/ \E container \in BOOLEAN : loadLeafletResolved(container)
    \/ loadLeafletRejected
    \/ renderedCallback
    \/ resizeTimerFires
    \/ initTimerFires
    \/ \E view \in ViewOptions : handleViewChange(view)
    \/ toggleHeatmap
    \/ disconnectedCallback

MapSpec == Init /\ [][MapNext]_vars

(* ====================== the SQL results table ======================== *)
(* sqlResultsTable.js: the row pager.                                     *)

\* the query results a parent hands over: totalRows and rows are separate
\* fields of the value
Values == [set : {TRUE}, totalRows : 0..MaxTotalRows, rows : 0..MaxTotalRows]

hasData(v) == v.set /\ v.rows > 0

\* this.value?.totalRows || 0
totalRows(v) == IF v.set THEN v.totalRows ELSE 0

hasMoreRows(v, count) == totalRows(v) > count

canLoadMore(v, count) == hasMoreRows(v, count) /\ count < MAX_DISPLAY_ROWS

\* the length of value.rows.slice(0, displayedRowCount), when there is data
processTextData(v, count, rows) ==
    IF ~hasData(v) THEN rows ELSE Min(v.rows, count)

\* the parent sets value, then the component is inserted
connectedCallbackTable(v) ==
    /\ ~tableConnected
    /\ tableConnected' = TRUE
    /\ value' = v
    /\ processedRows' = processTextData(v, displayedRowCount, processedRows)
    /\ UNCHANGED <<showTable, displayedRowCount, goodLoads>>
    /\ UNCHANGED <<carouselVars, mapVars>>

toggleView ==
    /\ tableConnected
    /\ showTable' = ~showTable
    /\ UNCHANGED <<value, processedRows, displayedRowCount, tableConnected,
                   goodLoads>>
    /\ UNCHANGED <<carouselVars, mapVars>>

loadMoreRows ==
    /\ tableConnected
    /\ displayedRowCount' =
          Min(Min(displayedRowCount + LOAD_MORE_INCREMENT, MAX_DISPLAY_ROWS),
              totalRows(value))
    /\ processedRows' = processTextData(value, displayedRowCount', processedRows)
    /\ goodLoads' = IF canLoadMore(value, displayedRowCount)
                    THEN goodLoads + 1 ELSE goodLoads
    /\ UNCHANGED <<value, showTable, tableConnected>>
    /\ UNCHANGED <<carouselVars, mapVars>>

TableNext ==
    \/ \E v \in Values \cup {NoValue} : connectedCallbackTable(v)
    \/ toggleView
    \/ loadMoreRows

TableSpec == Init /\ [][TableNext]_vars

(* ------------------------------ properties ---------------------------- *)

\* the navigation call that ran last, with the state it found
LastNav == navLog[Len(navLog)]

Navigating == lastOp \in {"next", "prev"}

\* C1: in both variants, whenever tableData is non-empty,
\* 0 <= currentIndex < tableData.length.
IndexValid ==
    hasRecords => (0 <= currentIndex /\ currentIndex < Len(tableData))

\* C1 witness: the clamp variant has been walked back to its first card
IndexValidWitness ==
    /\ variant = "clamp"
    /\ lastOp = "prev"
    /\ Len(tableData) = 3
    /\ LastNav.pre.currentIndex = 1
    /\ currentIndex = 0

\* C2: wrap variant, N >= 2 cards, valid index i: handleNext leaves
\* currentIndex = (i + 1) mod N and handlePrevious (i - 1) mod N; with three
\* cards, next() called one, two and three times from index 0 gives 1, 2, 0.
WrapNavigation ==
    (variant = "wrap" /\ Navigating /\ Len(LastNav.pre.tableData) >= 2) =>
        LET N == Len(LastNav.pre.tableData)
            i == LastNav.pre.currentIndex
        IN  /\ lastOp = "next" => currentIndex = (i + 1) % N
            /\ lastOp = "prev" => currentIndex = (i + N - 1) % N
            /\ (lastOp = "next" /\ N = 3 /\ run.start = 0) =>
                    currentIndex = <<1, 2, 0>>[run.n]

\* C2 witness: next() at the last of three cards has cycled to the first
WrapNavigationWitness ==
    /\ variant = "wrap"
    /\ lastOp = "next"
    /\ Len(tableData) = 3
    /\ run = [n |-> 3, start |-> 0]
    /\ LastNav.pre.currentIndex = 2
    /\ currentIndex = 0

\* C3: clamp variant, N cards, valid index i: handleNext leaves
\* currentIndex = min(i + 1, N - 1) and handlePrevious max(i - 1, 0); at the
\* last index next(), and at index 0 previous(), changes nothing.
ClampNavigation ==
    (variant = "clamp" /\ Navigating /\ Len(LastNav.pre.tableData) >= 1) =>
        LET N == Len(LastNav.pre.tableData)
            i == LastNav.pre.currentIndex
        IN  /\ lastOp = "next" => currentIndex = Min(i + 1, N - 1)
            /\ lastOp = "prev" => currentIndex = Max(i - 1, 0)
            /\ ((lastOp = "next" /\ i = N - 1) \/ (lastOp = "prev" /\ i = 0)) =>
                    Snapshot = LastNav.pre

\* C3 witness: next() was called on the last of three cards
ClampNavigationWitness ==
    /\ variant = "clamp"
    /\ lastOp = "next"
    /\ Len(tableData) = 3
    /\ LastNav.pre.currentIndex = 2

\* the first of two navigation calls in opposite directions was stopped by
\* an end of the clamped sequence
StoppedAtBoundary ==
    LET first == navLog[1]
        N == Len(first.pre.tableData)
    IN  /\ variant = "clamp"
        /\ \/ first.op = "next" /\ first.pre.currentIndex = N - 1
           \/ first.op = "prev" /\ first.pre.currentIndex = 0

\* C4: on a non-empty sequence, previous() then next(), and next() then
\* previous(), bring currentIndex and every card back to what they were,
\* except in the clamp variant at a boundary, where the first call leaves
\* the index in place and the second is therefore not undone.
InverseNavigation ==
    (Len(navLog) = 2 /\ navLog[1].op # navLog[2].op
        /\ Len(navLog[1].pre.tableData) >= 1) =>
        LET first == navLog[1]
            second == navLog[2]
            N == Len(first.pre.tableData)
        IN  IF StoppedAtBoundary
            THEN /\ second.pre.currentIndex = first.pre.currentIndex
                 /\ N >= 2 => currentIndex # first.pre.currentIndex
            ELSE /\ currentIndex = first.pre.currentIndex
                 /\ tableData = first.pre.tableData

\* C4 witness: previous() at index 0 of three wrap-around cards, then next()
InverseNavigationWitness ==
    /\ variant = "wrap"
    /\ Len(navLog) = 2
    /\ navLog[1].op = "prev"
    /\ navLog[2].op = "next"
    /\ Len(tableData) = 3
    /\ navLog[1].pre.currentIndex = 0
    /\ navLog[2].pre.currentIndex = 2

\* C5: wrap variant, N >= 1 cards: N calls in a row of handleNext, or of
\* handlePrevious, bring currentIndex back to where the run started.
FullCycle ==
    (variant = "wrap" /\ Navigating /\ hasRecords /\ run.n = Len(tableData)) =>
        currentIndex = run.start

\* C5 witness: four next() calls on four cards, started at index 2
FullCycleWitness ==
    /\ variant = "wrap"
    /\ lastOp = "next"
    /\ Len(tableData) = 4
    /\ run = [n |-> 4, start |-> 2]

\* C6: in both variants, on a sequence of length 0 or 1, handleNext and
\* handlePrevious leave currentIndex and tableData unchanged.
ShortSequenceNoOp ==
    (Navigating /\ Len(LastNav.pre.tableData) <= 1) =>
        /\ currentIndex = LastNav.pre.currentIndex
        /\ tableData = LastNav.pre.tableData

\* C7: after a successful fetch of R the sequence has one card per record of
\* R, in R's order, and currentIndex is 0 (wrap) or max(0, |R| - 1) (clamp).
FetchReplaces ==
    lastOp = "then" =>
        /\ Len(tableData) = Len(lastArg)
        /\ \A k \in 1..Len(lastArg) : tableData[k].Id = lastArg[k].Id
        /\ currentIndex = IF variant = "wrap" THEN 0
                          ELSE Max(0, Len(lastArg) - 1)

\* C7 witness: three records, delivered in descending order to the clamp
\* variant while another request is still pending
FetchReplacesWitness ==
    /\ variant = "clamp"
    /\ lastOp = "then"
    /\ lastArg = Descending(3)
    /\ inFlight # {}
    /\ currentIndex = 2

\* the display class of the wrap variant for a wrapped forward offset
WrapRule(d) ==
    CASE d = 0 -> "record-card card-active"
      [] d = 1 -> "record-card card-middle"
      [] d = 2 -> "record-card card-bottom"
      [] OTHER -> "record-card card-hidden"

\* C8: wrap variant, N >= 1 cards: the card at index i carries the class of
\* d = (i - currentIndex) mod N (0 active, 1 middle, 2 bottom, else hidden);
\* exactly one card is active and exactly min(N, 3) cards are not hidden.
WrapClasses ==
    (variant = "wrap" /\ hasRecords) =>
        LET N == Len(tableData) IN
        /\ \A k \in 1..N :
              tableData[k].cardClass = WrapRule(((k - 1) - currentIndex + N) % N)
        /\ Cardinality({k \in 1..N :
              tableData[k].cardClass = "record-card card-active"}) = 1
        /\ Cardinality({k \in 1..N :
              tableData[k].cardClass # "record-card card-hidden"}) = Min(N, 3)

\* C8 witness: the last of four cards is active, so the stack wraps
WrapClassesWitness ==
    /\ variant = "wrap"
    /\ Len(tableData) = 4
    /\ currentIndex = 3

\* the display class of the clamp variant for a position i - currentIndex
ClampRule(position) ==
    CASE position = 0 -> "record-card card-active"
      [] position = -1 -> "record-card card-middle"
      [] position = -2 -> "record-card card-bottom"
      [] OTHER -> "record-card card-hidden"

\* C9: clamp variant: the card at index i carries the class of the position
\* i - currentIndex (0 active, -1 middle, -2 bottom, else hidden); exactly
\* one card is active and the cards not hidden are the active one and at
\* most the two before it.
ClampClasses ==
    (variant = "clamp" /\ hasRecords) =>
        LET N == Len(tableData) IN
        /\ \A k \in 1..N :
              tableData[k].cardClass = ClampRule((k - 1) - currentIndex)
        /\ Cardinality({k \in 1..N :
              tableData[k].cardClass = "record-card card-active"}) = 1
        /\ {k - 1 : k \in {j \in 1..N :
              tableData[j].cardClass # "record-card card-hidden"}}
                = {i \in 0..(N - 1) : currentIndex - 2 <= i /\ i <= currentIndex}

\* C9 witness: the third of four cards is active: one hidden card after it
ClampClassesWitness ==
    /\ variant = "clamp"
    /\ Len(tableData) = 4
    /\ currentIndex = 2

\* C10: in both variants, whenever the sequence is non-empty, every card's
\* cardClass and position are the ones updateCardClasses computes for the
\* current currentIndex.
ClassesCurrent ==
    hasRecords =>
        tableData = IF variant = "wrap"
                    THEN updateCardClassesWrap(tableData, currentIndex)
                    ELSE updateCardClassesClamp(tableData, currentIndex)

\* C10 witness: a navigation call has just moved the index
ClassesCurrentWitness ==
    /\ Navigating
    /\ hasRecords
    /\ currentIndex # LastNav.pre.currentIndex

\* C11: in both variants a failed fetch leaves error a non-empty message
\* string, the sequence empty and currentIndex 0, and is not retried: the
\* requests sent are as many as the connects that passed the configuration
\* check.
FetchFailure ==
    /\ lastOp = "catch" =>
          /\ error # Undefined
          /\ error # ""
          /\ tableData = <<>>
          /\ currentIndex = 0
    /\ issued = okConnects

\* C11 witness: the second request of a clamp carousel was rejected with a
\* JavaScript Error, and nothing is pending
FetchFailureWitness ==
    /\ variant = "clamp"
    /\ lastOp = "catch"
    /\ error = "{}"
    /\ issued = 2
    /\ inFlight = {}

\* an identifier the recommendations variant requires is absent
MissingWrap(cfg) == ~cfg.recordId \/ ~cfg.objectApiName

\* an identifier the related-records variant requires is absent
MissingClamp(cfg) ==
    ~cfg.recordId \/ ~cfg.objectApiName \/ ~cfg.lookupFieldApiName \/ ~cfg.fieldsList

\* C12: a connect with a required identifier absent sets error to the fixed
\* configuration message and sends no request, and no step other than a
\* connect ever sends one.
ConfigErrorStops ==
    [][ /\ \A cfg \in Configs :
              (MissingWrap(cfg) /\ connectedCallbackWrap(cfg)) =>
                  /\ error' = ConfigErrorWrap
                  /\ issued' = issued
                  /\ inFlight' = inFlight
        /\ \A cfg \in Configs :
              (MissingClamp(cfg) /\ connectedCallbackClamp(cfg)) =>
                  /\ error' = ConfigErrorClamp
                  /\ issued' = issued
                  /\ inFlight' = inFlight
        /\ (issued' # issued \/ ~(inFlight' \subseteq inFlight)) =>
              lastOp' = "connect" ]_vars

\* C12 witness: a clamp carousel that had fetched once was connected again
\* with an identifier missing
ConfigErrorStopsWitness ==
    /\ variant = "clamp"
    /\ lastOp = "connect"
    /\ error = ConfigErrorClamp
    /\ issued = 1
    /\ inFlight = {}

\* C13: in both variants handleNext and handlePrevious leave the number of
\* cards, their order, each card's Id, title, url and fields, error and
\* isCollapsed unchanged.
NavigationFrame ==
    Navigating =>
        LET pre == LastNav.pre IN
        /\ Len(tableData) = Len(pre.tableData)
        /\ \A k \in 1..Len(tableData) :
              /\ tableData[k].Id = pre.tableData[k].Id
              /\ tableData[k].title = pre.tableData[k].title
              /\ tableData[k].url = pre.tableData[k].url
              /\ tableData[k].fields = pre.tableData[k].fields
        /\ error = pre.error
        /\ isCollapsed = pre.isCollapsed

\* C13 witness: a navigation call moved the index of a collapsed carousel
\* that shows an error next to its cards
NavigationFrameWitness ==
    /\ Navigating
    /\ Len(tableData) = 3
    /\ isCollapsed
    /\ error # Undefined
    /\ currentIndex # LastNav.pre.currentIndex

PaginatorChanges == tableData' # tableData \/ currentIndex' # currentIndex

\* C14 as claimed: the card sequence and currentIndex change only inside a
\* step triggered by a UI event (connect, next, previous).
OnlyUiEventsChange ==
    [][ PaginatorChanges => lastOp' \in {"connect", "next", "prev"} ]_vars

\* C14 as amended: the card sequence and currentIndex change only inside a
\* step triggered by a UI event (connect, next, previous) or inside the
\* .then/.catch callback of a fetch that was pending.
OnlyUiEventsOrCallbacksChange ==
    [][ PaginatorChanges =>
            \/ lastOp' \in {"connect", "next", "prev"}
            \/ /\ lastOp' \in {"then", "catch"}
               /\ inFlight # {}
               /\ inFlight' \subseteq inFlight
               /\ inFlight' # inFlight ]_vars

\* C14 witness: the .then callback of the only request has filled the
\* sequence
OnlyUiEventsOrCallbacksChangeWitness ==
    /\ lastOp = "then"
    /\ Len(tableData) = 2
    /\ issued = 1
    /\ inFlight = {}

\* C17: once the responses to two or more requests have all been handled,
\* the card sequence, error and currentIndex are those the response to the
\* most recently sent request produced.
LatestRequestWins ==
    (issued >= 2 /\ inFlight = {} /\ lastOp \in {"then", "catch"}) =>
        /\ latest.req = issued
        /\ tableData = latest.tableData
        /\ currentIndex = latest.currentIndex
        /\ error = latest.error

\* C18: in both variants showRightArrow is true exactly when handleNext
\* changes currentIndex, and showLeftArrow exactly when handlePrevious does.
ArrowsMatchNavigation ==
    [][ /\ handleNextWrap => (showRightArrowWrap <=> currentIndex' # currentIndex)
        /\ handlePreviousWrap => (showLeftArrowWrap <=> currentIndex' # currentIndex)
        /\ handleNextClamp => (showRightArrowClamp <=> currentIndex' # currentIndex)
        /\ handlePreviousClamp => (showLeftArrowClamp <=> currentIndex' # currentIndex)
      ]_vars

\* the heatmap is the current mode of the map component
HeatmapMode == selectedView = "heatmap" \/ isHeatMap

\* the heat layer is a layer of the current map
HeatLayerOnMap == heatLayer # 0 /\ heatLayer = map

\* C15: on an initialized map the heat layer is on the map only when the
\* heatmap is the current mode, and markers are on the map only when it is
\* not.
ViewMatchesLayers ==
    map # 0 =>
        /\ HeatLayerOnMap => HeatmapMode
        /\ shown # {} => ~HeatmapMode

\* C16: no step calls a method of this.map while this.map is null, and no
\* step acts on a heat layer of a map that has been removed.
MapNotUsedAfterTeardown == faults = {}

\* C19: displayedRowCount starts at 8; a loadMoreRows call never takes it
\* above MAX_DISPLAY_ROWS and never decreases it; made while canLoadMore it
\* strictly increases it, to min(old + 6, 30, totalRows); canLoadMore is
\* false after at most 4 such loads and, once false, stays false.
PagerMonotone ==
    [][loadMoreRows =>
          /\ displayedRowCount' <= MAX_DISPLAY_ROWS
          /\ displayedRowCount' >= displayedRowCount
          /\ canLoadMore(value, displayedRowCount) =>
                /\ displayedRowCount' > displayedRowCount
                /\ displayedRowCount' =
                      Min(Min(displayedRowCount + 6, 30), totalRows(value))
          /\ goodLoads' <= 4
          /\ goodLoads' = 4 => ~canLoadMore(value', displayedRowCount')
          /\ ~canLoadMore(value, displayedRowCount) =>
                ~canLoadMore(value', displayedRowCount')]_vars

====
